---- MODULE Spec2Model ----
(***************************************************************************)
(* Model of the request-logging middleware (src/middleware.py) and of the  *)
(* manual probe script for POST /summaries (src/test_manual.py).           *)
(*                                                                         *)
(* Three specifications share the variables:                               *)
(*   SpecMW      concurrent invocations of LoggingMiddleware.dispatch      *)
(*   SpecProbe   one run of main() of the probe script (FairProbe adds     *)
(*               the progress of a sequential program)                     *)
(*   SpecVerdict test_summaries applied to arbitrary texts and responses   *)
(***************************************************************************)
EXTENDS Integers, Sequences, FiniteSets, TLC

\* ------------------------------------------------------------------ bounds
NumReq == 2          \* concurrent dispatch invocations
MaxTime == 1         \* time.time() returns a reading in 0..MaxTime
MaxWords == 11       \* texts and summaries have 0..MaxWords words

Reqs == 1..NumReq
Times == 0..MaxTime
Paths == {"/summaries", "/health"}
Errors == {"RuntimeError"}

\* ------------------------------------------------------------ middleware
\* dispatch is a coroutine: it runs without interruption from its entry to
\* the await of line 63, and from the end of that await to its return.
VARIABLES
  pc,                \* position of each invocation: idle, awaiting, returned, raised
  request,           \* the request handed to each invocation
  request_path,      \* local of dispatch, line 56
  start_time,        \* local of dispatch, line 59
  end_time,          \* the reading of time.time() at line 66
  response,          \* local of dispatch, line 63
  execution_time_ms, \* local of dispatch, line 66
  downstream,        \* state of the continuation call_next(request)
  calls,             \* number of times call_next was invoked
  sink,              \* the lines each invocation wrote to standard output
  events,            \* the order of the steps of each invocation
  outcome,           \* what the caller of dispatch observes
  overlapped         \* two invocations have been suspended at the same time

mwvars == <<pc, request, request_path, start_time, end_time, response,
            execution_time_ms, downstream, calls, sink, events, outcome,
            overlapped>>

\* the probe script
VARIABLES
  ppc,        \* position of main(): start, case, inflight, ended, done, crashed
  caseno,     \* the test case main() is at, 1..7
  text,       \* the text of that case
  sent,       \* number of POST /summaries requests sent per case
  sendlog,    \* the cases in the order their requests were sent
  inflight,   \* requests sent and not yet ended
  ended,      \* the cases whose request has ended
  last,       \* how the request of the current case ended
  out,        \* the lines the current case has printed
  banner,     \* "Testing Complete!" has been printed
  escaped     \* an exception has left test_summaries or main

probevars == <<ppc, caseno, text, sent, sendlog, inflight, ended, last, out,
               banner, escaped>>

vars == <<mwvars, probevars>>

NoResponse == [status_code |-> 0, body |-> "none"]
NoError == "none"
NoTime == 0 - 1
CancelledError == "CancelledError"

\* the responses the continuation can produce
Responses == {[status_code |-> 200, body |-> "summary"],
              [status_code |-> 500, body |-> "error"]}

Pending == [kind |-> "pending", response |-> NoResponse, error |-> NoError]
NotCalled == [kind |-> "notcalled", response |-> NoResponse, error |-> NoError]
NoOutcome == [kind |-> "none", response |-> NoResponse, error |-> NoError]

\* middleware.py:56-63  a dispatch that invokes call_next twice
DispatchEnterCallsTwice(r) ==
  /\ pc[r] = "idle"
  /\ request_path' = [request_path EXCEPT ![r] = request[r].path]
  /\ \E t \in Times : start_time' = [start_time EXCEPT ![r] = t]
  /\ calls' = [calls EXCEPT ![r] = @ + 2]
  /\ downstream' = [downstream EXCEPT ![r] = Pending]
  /\ events' = [events EXCEPT ![r] = @ \o <<"start", "call", "call">>]
  /\ pc' = [pc EXCEPT ![r] = "awaiting"]
  /\ overlapped' = (overlapped \/ \E q \in Reqs \ {r} : pc[q] = "awaiting")
  /\ UNCHANGED <<request, end_time, response, execution_time_ms, sink, outcome>>
  /\ UNCHANGED probevars

\* middleware.py:56-63  request_path = request.url.path; start_time =
\* time.time(); call_next(request) is invoked and dispatch suspends at the await
DispatchEnter(r) ==
  /\ pc[r] = "idle"
  /\ request_path' = [request_path EXCEPT ![r] = request[r].path]
  /\ \E t \in Times : start_time' = [start_time EXCEPT ![r] = t]
  /\ calls' = [calls EXCEPT ![r] = @ + 1]
  /\ downstream' = [downstream EXCEPT ![r] = Pending]
  /\ events' = [events EXCEPT ![r] = @ \o <<"start", "call">>]
  /\ pc' = [pc EXCEPT ![r] = "awaiting"]
  /\ overlapped' = (overlapped \/ \E q \in Reqs \ {r} : pc[q] = "awaiting")
  /\ UNCHANGED <<request, end_time, response, execution_time_ms, sink, outcome>>
  /\ UNCHANGED probevars

\* the continuation completes with a response (the rest of the pipeline)
HandlerReturn(r) ==
  /\ pc[r] = "awaiting"
  /\ downstream[r].kind = "pending"
  /\ \E resp \in Responses :
       downstream' = [downstream EXCEPT ![r] =
                        [kind |-> "returned", response |-> resp, error |-> NoError]]
  /\ UNCHANGED <<pc, request, request_path, start_time, end_time, response,
                 execution_time_ms, calls, sink, events, outcome, overlapped>>
  /\ UNCHANGED probevars

\* the continuation fails by raising an error
HandlerRaise(r) ==
  /\ pc[r] = "awaiting"
  /\ downstream[r].kind = "pending"
  /\ \E e \in Errors :
       downstream' = [downstream EXCEPT ![r] =
                        [kind |-> "raised", response |-> NoResponse, error |-> e]]
  /\ UNCHANGED <<pc, request, request_path, start_time, end_time, response,
                 execution_time_ms, calls, sink, events, outcome, overlapped>>
  /\ UNCHANGED probevars

\* the request is cancelled while dispatch is suspended at the await
Cancel(r) ==
  /\ pc[r] = "awaiting"
  /\ downstream[r].kind = "pending"
  /\ downstream' = [downstream EXCEPT ![r] =
                      [kind |-> "cancelled", response |-> NoResponse,
                       error |-> CancelledError]]
  /\ UNCHANGED <<pc, request, request_path, start_time, end_time, response,
                 execution_time_ms, calls, sink, events, outcome, overlapped>>
  /\ UNCHANGED probevars

\* middleware.py:66  (time.time() - start_time) * 1000
ExecutionTimeMs(start, end) == (end - start) * 1000

\* middleware.py:69-78  a record built from attributes of the one middleware
\* object, which the latest invocation to enter has overwritten
LogRecordShared(path, ms, resp) ==
  LET q == CHOOSE x \in Reqs :
             /\ pc[x] # "idle"
             /\ \A y \in Reqs : pc[y] # "idle" => y <= x
  IN [path |-> request_path[q], ms |-> ms, status |-> resp.status_code]

\* middleware.py:69-78  the record printed: path, execution time, status code
LogRecord(path, ms, resp) ==
  [path |-> path, ms |-> ms, status |-> resp.status_code]

\* middleware.py:80  a dispatch that rewrites the response it returns
ReturnRewritten(resp) == [resp EXCEPT !.status_code = 200]

\* middleware.py:80  the value of `return response`
ReturnValue(resp) == resp

\* middleware.py:63-80  the await ends with the continuation's response:
\* response = ...; execution_time_ms = (time.time() - start_time) * 1000;
\* status_code = response.status_code; print(...); return response
DispatchResume(r) ==
  /\ pc[r] = "awaiting"
  /\ downstream[r].kind = "returned"
  /\ \E t \in Times :
       LET resp == downstream[r].response
           ms == ExecutionTimeMs(start_time[r], t)
       IN /\ response' = [response EXCEPT ![r] = resp]
          /\ end_time' = [end_time EXCEPT ![r] = t]
          /\ execution_time_ms' = [execution_time_ms EXCEPT ![r] = ms]
          /\ sink' = [sink EXCEPT ![r] =
                        Append(@, LogRecord(request_path[r], ms, resp))]
          /\ outcome' = [outcome EXCEPT ![r] =
                           [kind |-> "return", response |-> ReturnValue(resp),
                            error |-> NoError]]
  /\ events' = [events EXCEPT ![r] = @ \o <<"end", "log", "return">>]
  /\ pc' = [pc EXCEPT ![r] = "returned"]
  /\ UNCHANGED <<request, request_path, start_time, downstream, calls,
                 overlapped>>
  /\ UNCHANGED probevars

\* middleware.py:63  a dispatch that catches the error and answers 500
DispatchSwallow(r) ==
  /\ pc[r] = "awaiting"
  /\ downstream[r].kind \in {"raised", "cancelled"}
  /\ outcome' = [outcome EXCEPT ![r] =
                   [kind |-> "return",
                    response |-> [status_code |-> 500, body |-> "error"],
                    error |-> NoError]]
  /\ events' = [events EXCEPT ![r] = Append(@, "return")]
  /\ pc' = [pc EXCEPT ![r] = "returned"]
  /\ UNCHANGED <<request, request_path, start_time, end_time, response,
                 execution_time_ms, downstream, calls, sink, overlapped>>
  /\ UNCHANGED probevars

\* middleware.py:63  a dispatch that logs in a finally clause
DispatchRaiseLogged(r) ==
  /\ pc[r] = "awaiting"
  /\ downstream[r].kind \in {"raised", "cancelled"}
  /\ \E t \in Times :
       /\ end_time' = [end_time EXCEPT ![r] = t]
       /\ sink' = [sink EXCEPT ![r] =
                     Append(@, [path |-> request_path[r],
                                ms |-> ExecutionTimeMs(start_time[r], t),
                                status |-> 500])]
  /\ outcome' = [outcome EXCEPT ![r] =
                   [kind |-> "raise", response |-> NoResponse,
                    error |-> downstream[r].error]]
  /\ events' = [events EXCEPT ![r] = @ \o <<"end", "log", "raise">>]
  /\ pc' = [pc EXCEPT ![r] = "raised"]
  /\ UNCHANGED <<request, request_path, start_time, response,
                 execution_time_ms, downstream, calls, overlapped>>
  /\ UNCHANGED probevars

\* middleware.py:63  the await raises (the continuation's error, or
\* CancelledError): dispatch has no try/except, so the exception leaves it at
\* once and lines 66-80 do not run
DispatchRaise(r) ==
  /\ pc[r] = "awaiting"
  /\ downstream[r].kind \in {"raised", "cancelled"}
  /\ outcome' = [outcome EXCEPT ![r] =
                   [kind |-> "raise", response |-> NoResponse,
                    error |-> downstream[r].error]]
  /\ events' = [events EXCEPT ![r] = Append(@, "raise")]
  /\ pc' = [pc EXCEPT ![r] = "raised"]
  /\ UNCHANGED <<request, request_path, start_time, end_time, response,
                 execution_time_ms, downstream, calls, sink, overlapped>>
  /\ UNCHANGED probevars

\* ----------------------------------------------------------- probe script
NumCases == 7
Cases == 1..NumCases

\* A text is a sequence of characters: "w" a word character, "s" a whitespace
Spaces(k) == [i \in 1..k |-> "s"]

WordsFrom(n, gap) ==
  IF n = 0 THEN <<>>
  ELSE [i \in 1..(n + (n - 1) * gap) |->
          IF (i - 1) % (gap + 1) = 0 THEN "w" ELSE "s"]

\* n one-letter words, gap spaces between them, pad spaces around them
MkText(n, gap, pad) == Spaces(pad) \o WordsFrom(n, gap) \o Spaces(pad)

\* test_manual.py:17, 31, 40  len(text.split()): the number of maximal runs
\* of non-whitespace characters, counted at the first character of each run
WordCount(t) ==
  Cardinality({i \in 1..Len(t) : t[i] # "s" /\ (i = 1 \/ t[i - 1] = "s")})

\* test_manual.py:74, 80, 86, 92, 98, 104, 115  the literals of the seven cases
CaseText(k) ==
  CASE k = 1 -> MkText(14, 1, 0)
    [] k = 2 -> MkText(10, 1, 0)
    [] k = 3 -> MkText(5, 1, 0)
    [] k = 4 -> MkText(38, 1, 0)
    [] k = 5 -> MkText(12, 2, 2)
    [] k = 6 -> MkText(1, 1, 0)
    [] OTHER -> <<>>

Texts == {MkText(n, 1, 0) : n \in 0..MaxWords} \cup
         {MkText(n, 2, 1) : n \in 0..MaxWords}

\* How a POST /summaries can end: an exception of requests.post, or a response
ProbeStatuses == {200, 422, 500}
\* (KeyboardInterrupt and SystemExit can be raised while requests.post blocks)
PostExceptions == {"ConnectionError", "ConnectTimeout", "ReadTimeout",
                   "OtherException", "KeyboardInterrupt", "SystemExit"}
NoExc == "none"
NoOutcomeYet ==
  [kind |-> "none", exc |-> NoExc, status |-> 0, json |-> FALSE,
   has_summary |-> FALSE, has_word_count |-> FALSE, has_timestamp |-> FALSE,
   summary |-> <<>>]

Outcomes ==
  {[NoOutcomeYet EXCEPT !.kind = "exception", !.exc = e] : e \in PostExceptions}
  \cup
  {[NoOutcomeYet EXCEPT !.kind = "response", !.status = s] : s \in ProbeStatuses}
  \cup
  [kind : {"response"}, exc : {NoExc}, status : {200}, json : {TRUE},
   has_summary : {TRUE}, has_word_count : BOOLEAN, has_timestamp : BOOLEAN,
   summary : Texts]
  \cup
  {[NoOutcomeYet EXCEPT !.kind = "response", !.status = 200, !.json = TRUE,
                        !.has_word_count = wc, !.has_timestamp = ts] :
     wc \in BOOLEAN, ts \in BOOLEAN}

\* a printed line
L(tag, a, b) == [tag |-> tag, a |-> a, b |-> b]

\* test_manual.py:13-17  the header of a case
Header(t) == <<L("Test", 0, 0), L("InputText", 0, 0),
               L("InputWordCount", WordCount(t), 0)>>

\* test_manual.py:40-54  the verdict on a summary of m words for a text of n
\* a verdict that expects every word back, however long the text
VerdictNoTruncation(n, m) ==
  IF m = n THEN L("CorrectAllLess", m, 0) ELSE L("Expected", n, m)

Verdict(n, m) ==
  IF n > 10
    THEN IF m = 10 THEN L("CorrectExactly10", 0, 0) ELSE L("Expected", 10, m)
  ELSE IF n = 10
    THEN IF m = 10 THEN L("CorrectAll10", 0, 0) ELSE L("Expected", 10, m)
  ELSE IF m = n THEN L("CorrectAllLess", m, 0) ELSE L("Expected", n, m)

\* the result of a try body: the lines it printed and the exception that
\* ended it (NoExc when it ran to its end)
Ran(lines) == [lines |-> lines, exc |-> NoExc]
Threw(lines, e) == [lines |-> lines, exc |-> e]

\* test_manual.py:28-54  the branch of a 200 response
On200(t, o) ==
  IF ~o.json THEN Threw(<<>>, "JSONDecodeError")
  ELSE IF ~o.has_summary THEN Threw(<<>>, "KeyError")
  ELSE
    LET m == WordCount(o.summary)
        shown == <<L("Success", 0, 0), L("Summary", 0, 0),
                   L("SummaryWordCount", m, 0)>>
    IN IF ~o.has_word_count THEN Threw(shown, "KeyError")
       ELSE IF ~o.has_timestamp
         THEN Threw(shown \o <<L("ApiWordCount", 0, 0)>>, "KeyError")
       ELSE Ran(shown \o <<L("ApiWordCount", 0, 0), L("Timestamp", 0, 0),
                           Verdict(WordCount(t), m)>>)

\* test_manual.py:20-57  the try body of test_summaries
TryBody(t, o) ==
  IF o.kind = "exception" THEN Threw(<<>>, o.exc)
  ELSE
    LET status == <<L("StatusCode", o.status, 0)>>
    IN IF o.status = 200
         THEN LET b == On200(t, o)
              IN [lines |-> status \o b.lines, exc |-> b.exc]
         ELSE Ran(status \o <<L("ErrorStatus", o.status, 0),
                              L("ResponseText", 0, 0)>>)

\* test_manual.py:59  except requests.exceptions.ConnectionError
\* (ConnectTimeout is a subclass of ConnectionError)
IsConnectionError(e) == e \in {"ConnectionError", "ConnectTimeout"}

\* a handler that catches the errors of the requests library only
CatchesOnlyRequestErrors(e) ==
  e \in {"ConnectionError", "ConnectTimeout", "ReadTimeout"}

\* the classes that derive from Exception; KeyboardInterrupt and SystemExit
\* derive from BaseException only
ExceptionClasses == {"ConnectionError", "ConnectTimeout", "ReadTimeout",
                     "OtherException", "JSONDecodeError", "KeyError"}

\* test_manual.py:62, 124  except Exception
IsException(e) == e \in ExceptionClasses

\* test_manual.py:59-63  the handlers of test_summaries
Handlers(e) ==
  IF e = NoExc THEN Ran(<<>>)
  ELSE IF IsConnectionError(e)
    THEN Ran(<<L("CouldNotConnect", 0, 0), L("Hint", 0, 0)>>)
  ELSE IF IsException(e) THEN Ran(<<L("GenericError", 0, 0)>>)
  ELSE Threw(<<>>, e)

\* test_manual.py:19-63  what test_summaries does once its request has ended
AfterRequest(t, o) ==
  LET b == TryBody(t, o)
      h == Handlers(b.exc)
  IN [lines |-> b.lines \o h.lines, exc |-> h.exc]

\* test_manual.py:118-123  the try body of the empty-string case
Case7Body(o) ==
  IF o.kind = "exception" THEN Threw(<<>>, o.exc)
  ELSE Ran(<<L("StatusCode", o.status, 0),
             IF o.status = 422 THEN L("CorrectValidation", 0, 0)
                               ELSE L("UnexpectedStatus", o.status, 0),
             L("ResponseText", 0, 0)>>)

\* test_manual.py:124-125  the only handler of the empty-string case
Case7Handlers(e) ==
  IF e = NoExc THEN Ran(<<>>)
  ELSE IF IsException(e) THEN Ran(<<L("GenericError", 0, 0)>>)
  ELSE Threw(<<>>, e)

\* test_manual.py:112-125  the empty-string case once its request has ended
AfterRequest7(o) ==
  LET b == Case7Body(o)
      h == Case7Handlers(b.exc)
  IN [lines |-> b.lines \o h.lines, exc |-> h.exc]

\* test_manual.py:66-72  main() is about to start
InitProbe ==
  /\ ppc = "start"
  /\ caseno = 1
  /\ text = CaseText(1)
  /\ sent = [k \in Cases |-> 0]
  /\ sendlog = <<>>
  /\ inflight = 0
  /\ ended = {}
  /\ last = NoOutcomeYet
  /\ out = <<>>
  /\ banner = FALSE
  /\ escaped = FALSE
  /\ pc = [r \in Reqs |-> "idle"]
  /\ request = [r \in Reqs |-> [path |-> "/summaries"]]
  /\ request_path = [r \in Reqs |-> "none"]
  /\ start_time = [r \in Reqs |-> NoTime]
  /\ end_time = [r \in Reqs |-> NoTime]
  /\ response = [r \in Reqs |-> NoResponse]
  /\ execution_time_ms = [r \in Reqs |-> 0]
  /\ downstream = [r \in Reqs |-> NotCalled]
  /\ calls = [r \in Reqs |-> 0]
  /\ sink = [r \in Reqs |-> <<>>]
  /\ events = [r \in Reqs |-> <<>>]
  /\ outcome = [r \in Reqs |-> NoOutcome]
  /\ overlapped = FALSE

\* test_manual.py:68-70  main() prints its title
MainStart ==
  /\ ppc = "start"
  /\ out' = <<L("Title", 0, 0)>>
  /\ ppc' = "case"
  /\ UNCHANGED <<caseno, text, sent, sendlog, inflight, ended, last, banner,
                 escaped>>
  /\ UNCHANGED mwvars

\* test_manual.py:13-24  a case of test_summaries prints its header and sends
\* its request; requests.post blocks until the request has ended
CaseSend ==
  /\ ppc = "case"
  /\ caseno \in 1..6
  /\ out' = Header(text)
  /\ sent' = [sent EXCEPT ![caseno] = @ + 1]
  /\ sendlog' = Append(sendlog, caseno)
  /\ inflight' = inflight + 1
  /\ last' = NoOutcomeYet
  /\ ppc' = "inflight"
  /\ UNCHANGED <<caseno, text, ended, banner, escaped>>
  /\ UNCHANGED mwvars

\* test_manual.py:20-63  the request ends with outcome o and the case reports
CaseEnd ==
  /\ ppc = "inflight"
  /\ caseno \in 1..6
  /\ \E o \in Outcomes :
       LET a == AfterRequest(text, o)
       IN /\ last' = o
          /\ out' = out \o a.lines
          /\ escaped' = (a.exc # NoExc)
          /\ ppc' = IF a.exc # NoExc THEN "crashed" ELSE "ended"
  /\ inflight' = inflight - 1
  /\ ended' = ended \cup {caseno}
  /\ UNCHANGED <<caseno, text, sent, sendlog, banner>>
  /\ UNCHANGED mwvars

\* test_manual.py:109-117  the empty-string case prints its header and sends
Case7Send ==
  /\ ppc = "case"
  /\ caseno = 7
  /\ out' = <<L("Test", 0, 0)>>
  /\ sent' = [sent EXCEPT ![caseno] = @ + 1]
  /\ sendlog' = Append(sendlog, caseno)
  /\ inflight' = inflight + 1
  /\ last' = NoOutcomeYet
  /\ ppc' = "inflight"
  /\ UNCHANGED <<caseno, text, ended, banner, escaped>>
  /\ UNCHANGED mwvars

\* test_manual.py:112-125  the request of the empty-string case ends
Case7End ==
  /\ ppc = "inflight"
  /\ caseno = 7
  /\ \E o \in Outcomes :
       LET a == AfterRequest7(o)
       IN /\ last' = o
          /\ out' = out \o a.lines
          /\ escaped' = (a.exc # NoExc)
          /\ ppc' = IF a.exc # NoExc THEN "crashed" ELSE "ended"
  /\ inflight' = inflight - 1
  /\ ended' = ended \cup {caseno}
  /\ UNCHANGED <<caseno, text, sent, sendlog, banner>>
  /\ UNCHANGED mwvars

\* a main() that sends the request of a failed case once more
CaseNextWithRetry ==
  /\ ppc = "ended"
  /\ caseno < NumCases
  /\ caseno' = IF last.kind = "exception" /\ sent[caseno] < 2
                 THEN caseno ELSE caseno + 1
  /\ text' = CaseText(caseno')
  /\ ppc' = "case"
  /\ UNCHANGED <<sent, sendlog, inflight, ended, last, out, banner, escaped>>
  /\ UNCHANGED mwvars

\* test_manual.py:73-108  main() goes on to the next case
CaseNext ==
  /\ ppc = "ended"
  /\ caseno < NumCases
  /\ caseno' = caseno + 1
  /\ text' = CaseText(caseno + 1)
  /\ ppc' = "case"
  /\ UNCHANGED <<sent, sendlog, inflight, ended, last, out, banner, escaped>>
  /\ UNCHANGED mwvars

\* test_manual.py:127-129  main() prints "Testing Complete!" and returns
MainFinish ==
  /\ ppc = "ended"
  /\ caseno = NumCases
  /\ banner' = TRUE
  /\ ppc' = "done"
  /\ UNCHANGED <<caseno, text, sent, sendlog, inflight, ended, last, out,
                 escaped>>
  /\ UNCHANGED mwvars

\* ---------------------------------------------------------- specifications
\* middleware.py:28-37  no invocation has started; each request has a path
InitMW ==
  /\ pc = [r \in Reqs |-> "idle"]
  /\ request \in [Reqs -> [path : Paths]]
  /\ request_path = [r \in Reqs |-> "none"]
  /\ start_time = [r \in Reqs |-> NoTime]
  /\ end_time = [r \in Reqs |-> NoTime]
  /\ response = [r \in Reqs |-> NoResponse]
  /\ execution_time_ms = [r \in Reqs |-> 0]
  /\ downstream = [r \in Reqs |-> NotCalled]
  /\ calls = [r \in Reqs |-> 0]
  /\ sink = [r \in Reqs |-> <<>>]
  /\ events = [r \in Reqs |-> <<>>]
  /\ outcome = [r \in Reqs |-> NoOutcome]
  /\ overlapped = FALSE
  /\ ppc = "start"
  /\ caseno = 1
  /\ text = CaseText(1)
  /\ sent = [k \in Cases |-> 0]
  /\ sendlog = <<>>
  /\ inflight = 0
  /\ ended = {}
  /\ last = NoOutcomeYet
  /\ out = <<>>
  /\ banner = FALSE
  /\ escaped = FALSE

NextMW ==
  \E r \in Reqs :
    \/ DispatchEnter(r)
    \/ HandlerReturn(r)
    \/ HandlerRaise(r)
    \/ Cancel(r)
    \/ DispatchResume(r)
    \/ DispatchRaise(r)

SpecMW == InitMW /\ [][NextMW]_vars

NextProbe ==
  \/ MainStart
  \/ CaseSend
  \/ CaseEnd
  \/ Case7Send
  \/ Case7End
  \/ CaseNext
  \/ MainFinish

SpecProbe == InitProbe /\ [][NextProbe]_vars

\* main() is a sequential program: a step that can be taken is taken
\* (every request ends, at the latest by its timeout of 5 seconds, line 23)
FairProbe == InitProbe /\ [][NextProbe]_vars /\ WF_vars(NextProbe)

\* test_manual.py:11  test_summaries is about to be called with some text
InitVerdict ==
  /\ ppc = "case"
  /\ caseno = 1
  /\ text \in Texts
  /\ sent = [k \in Cases |-> 0]
  /\ sendlog = <<>>
  /\ inflight = 0
  /\ ended = {}
  /\ last = NoOutcomeYet
  /\ out = <<>>
  /\ banner = FALSE
  /\ escaped = FALSE
  /\ pc = [r \in Reqs |-> "idle"]
  /\ request = [r \in Reqs |-> [path |-> "/summaries"]]
  /\ request_path = [r \in Reqs |-> "none"]
  /\ start_time = [r \in Reqs |-> NoTime]
  /\ end_time = [r \in Reqs |-> NoTime]
  /\ response = [r \in Reqs |-> NoResponse]
  /\ execution_time_ms = [r \in Reqs |-> 0]
  /\ downstream = [r \in Reqs |-> NotCalled]
  /\ calls = [r \in Reqs |-> 0]
  /\ sink = [r \in Reqs |-> <<>>]
  /\ events = [r \in Reqs |-> <<>>]
  /\ outcome = [r \in Reqs |-> NoOutcome]
  /\ overlapped = FALSE

\* test_manual.py:11-63  one call of test_summaries: header and request,
\* then, once the request has ended, the report
NextVerdict ==
  \/ CaseSend
  \/ CaseEnd

SpecVerdict == InitVerdict /\ [][NextVerdict]_vars

\* ------------------------------------------------------------------ claims
FullOrder == <<"start", "call", "end", "log", "return">>
IsPrefix(a, b) == Len(a) <= Len(b) /\ \A i \in 1..Len(a) : a[i] = b[i]

\* C1: in every invocation of dispatch the continuation is invoked exactly
\* once (never zero times once dispatch runs, never twice) and the steps occur
\* in the order start timestamp, continuation, end timestamp, log, return: the
\* steps taken so far are a prefix of that order, or start, continuation and
\* the propagating error; an invocation that returned took all five.
C1_CallOnceInOrder ==
  \A r \in Reqs :
    /\ calls[r] = IF pc[r] = "idle" THEN 0 ELSE 1
    /\ \/ IsPrefix(events[r], FullOrder)
       \/ events[r] = <<"start", "call", "raise">>
    /\ pc[r] = "returned" => events[r] = FullOrder

C1_Witness ==
  \E r \in Reqs :
    /\ pc[r] = "returned" /\ events[r] = FullOrder /\ calls[r] = 1
    /\ \E q \in Reqs : pc[q] = "raised" /\ calls[q] = 1

\* C2: when the continuation returns a response, dispatch returns that same
\* response to its caller, status code and body unchanged, and the request
\* still has the path it came with.
C2_ResponseUnchanged ==
  \A r \in Reqs :
    pc[r] = "returned" =>
      /\ downstream[r].kind = "returned"
      /\ outcome[r].kind = "return"
      /\ outcome[r].response = downstream[r].response
      /\ outcome[r].response \in Responses
      /\ request[r].path = request_path[r]

C2_Witness ==
  \E r \in Reqs :
    /\ pc[r] = "returned"
    /\ outcome[r].response = [status_code |-> 500, body |-> "error"]

\* the state that belongs to one invocation
Locals(r) == <<pc[r], request_path[r], start_time[r], end_time[r], response[r],
               execution_time_ms[r], downstream[r], calls[r], sink[r],
               events[r], outcome[r]>>

OwnLine(r) ==
  /\ Len(sink[r]) = 1
  /\ sink[r][1].path = request[r].path
  /\ sink[r][1].status = downstream[r].response.status_code
  /\ sink[r][1].ms = (end_time[r] - start_time[r]) * 1000

\* C3 as stated: every invocation that has ended, under any interleaving,
\* has produced exactly one log line, carrying its own path, status and
\* duration.
C3_Original ==
  \A r \in Reqs : pc[r] \in {"returned", "raised"} => OwnLine(r)

\* C3 as amended: under every interleaving of concurrent invocations, an
\* invocation whose continuation returned a response has produced exactly one
\* log line once it returns, carrying its own path, the status code of its
\* own response and the duration between its own two timestamps; an
\* invocation never produces more than one line, and produces none when its
\* continuation raised or it was cancelled; no step writes the state of two
\* invocations.
C3_Isolation ==
  /\ [](\A r \in Reqs :
          /\ Len(sink[r]) <= 1
          /\ pc[r] = "returned" => OwnLine(r)
          /\ pc[r] = "raised" => sink[r] = <<>>)
  /\ [][\A r \in Reqs : \A q \in Reqs \ {r} :
          ~(Locals(r)' # Locals(r) /\ Locals(q)' # Locals(q))]_vars

C3_Witness ==
  /\ overlapped
  /\ pc[1] = "returned" /\ pc[2] = "returned"
  /\ request[1].path # request[2].path
  /\ sink[1][1].status # sink[2][1].status
  /\ sink[1][1].ms # sink[2][1].ms

\* C4: when the continuation raises an error, the same error reaches the
\* caller of dispatch and dispatch returns no response.
C4_ErrorPropagates ==
  \A r \in Reqs :
    (downstream[r].kind = "raised" /\ pc[r] # "awaiting") =>
      /\ pc[r] = "raised"
      /\ outcome[r].kind = "raise"
      /\ outcome[r].error = downstream[r].error
      /\ outcome[r].error \in Errors
      /\ outcome[r].response = NoResponse

C4_Witness ==
  \E r \in Reqs :
    /\ pc[r] = "raised" /\ downstream[r].kind = "raised"
    /\ outcome[r] = [kind |-> "raise", response |-> NoResponse,
                     error |-> "RuntimeError"]

\* C5: the duration of every emitted log record is non-negative, whatever
\* the two readings of the clock.
C5_DurationNonNegative ==
  \A r \in Reqs : \A i \in 1..Len(sink[r]) : sink[r][i].ms >= 0

\* C9: a log record is emitted only for a request whose continuation
\* returned a response: one record on the success path, none when the
\* continuation raised and none when the request was cancelled at the await.
C9_LogOnlyOnSuccess ==
  \A r \in Reqs :
    /\ sink[r] # <<>> => downstream[r].kind = "returned"
    /\ pc[r] = "returned" => Len(sink[r]) = 1
    /\ pc[r] = "raised" => Len(sink[r]) = 0
    /\ downstream[r].kind \in {"raised", "cancelled"} => Len(sink[r]) = 0

C9_Witness ==
  \E r \in Reqs :
    /\ pc[r] = "raised" /\ downstream[r].kind = "cancelled" /\ sink[r] = <<>>
    /\ \E q \in Reqs : pc[q] = "returned" /\ Len(sink[q]) = 1

\* C6: the probe is sequential and never retries: the cases send their
\* requests in the order 1..7, one request each, the request of case k+1 only
\* after the request of case k has ended, with at most one request in flight
\* and at most seven in a run.
C6_Sequential ==
  /\ inflight \in {0, 1}
  /\ Len(sendlog) <= NumCases
  /\ \A i \in 1..Len(sendlog) : sendlog[i] = i
  /\ \A k \in Cases : sent[k] = IF k <= Len(sendlog) THEN 1 ELSE 0
  /\ \A k \in Cases : (k > 1 /\ sent[k] > 0) => (k - 1) \in ended
  /\ \A k \in ended : sent[k] = 1
  /\ inflight = 1 => (ppc = "inflight" /\ caseno \notin ended)
  /\ ppc = "done" => \A k \in Cases : sent[k] = 1

C6_Witness ==
  /\ ppc = "done"
  /\ Len(sendlog) = NumCases
  /\ last.kind = "exception"

\* the request of the current case was ended by an exception that is no
\* instance of Exception (KeyboardInterrupt, SystemExit)
Interrupted == last.kind = "exception" /\ ~IsException(last.exc)

\* C7 as stated: whatever the outcome of each case, any exception included,
\* no exception leaves main, all seven cases are attempted and "Testing
\* Complete!" is eventually printed.
C7_Original ==
  /\ [](~escaped /\ ppc # "crashed")
  /\ [](banner => (ended = Cases /\ \A k \in Cases : sent[k] = 1))
  /\ <>banner

\* C7 as amended: an exception leaves main only when a request is ended by
\* an exception that is no instance of Exception; otherwise every case is
\* attempted and "Testing Complete!" is eventually printed, and whenever it
\* is printed all seven cases have sent their request and ended.
C7_RunsToCompletion ==
  /\ []((escaped \/ ppc = "crashed") => Interrupted)
  /\ [](banner => (ended = Cases /\ \A k \in Cases : sent[k] = 1))
  /\ <>(banner \/ Interrupted)

C7_Witness ==
  /\ banner
  /\ ended = Cases
  /\ last.kind = "exception" /\ last.exc = "OtherException"

HasLine(tag) == \E i \in 1..Len(out) : out[i].tag = tag

\* C8: in every case, the empty-string case included, a connection failure
\* is reported by the "Could not connect to server" message and its hint, not
\* by the output of a non-2xx response nor by the generic handler.
C8_ConnectionFailureDistinct ==
  (ppc \in {"ended", "done"} /\ last.kind = "exception"
     /\ IsConnectionError(last.exc)) =>
    /\ HasLine("CouldNotConnect") /\ HasLine("Hint")
    /\ ~HasLine("GenericError") /\ ~HasLine("ErrorStatus")
    /\ ~HasLine("UnexpectedStatus")

CorrectTags == {"CorrectExactly10", "CorrectAll10", "CorrectAllLess"}
VerdictTags == CorrectTags \cup {"Expected"}
VerdictLines == {i \in 1..Len(out) : out[i].tag \in VerdictTags}
Min(a, b) == IF a < b THEN a ELSE b

VerdictRight(n, m) ==
  /\ Cardinality(VerdictLines) = 1
  /\ (\E i \in VerdictLines : out[i].tag \in CorrectTags) <=> (m = Min(n, 10))
  /\ \A i \in VerdictLines :
       out[i].tag = "Expected" => (out[i].a = Min(n, 10) /\ out[i].b = m)
  /\ ~escaped

\* C10 as stated: for every text of n words and every 200 response whose
\* summary has m words, exactly one verdict marker is printed, "Correct" iff
\* m = min(n, 10), and no error is raised.
C10_Original ==
  (ppc \in {"ended", "crashed"} /\ last.kind = "response"
     /\ last.status = 200 /\ last.json /\ last.has_summary) =>
    VerdictRight(WordCount(text), WordCount(last.summary))

\* C10 as amended: for every text of n words and every 200 response whose
\* body carries the fields summary (of m words), word_count and timestamp,
\* exactly one verdict marker is printed, "Correct" iff m = min(n, 10) and
\* the "Expected ... got" marker otherwise, and no error is raised; no call
\* prints more than one verdict marker.
C10_Verdict ==
  /\ Cardinality(VerdictLines) <= 1
  /\ (ppc \in {"ended", "crashed"} /\ last.kind = "response"
        /\ last.status = 200 /\ last.json /\ last.has_summary
        /\ last.has_word_count /\ last.has_timestamp) =>
       VerdictRight(WordCount(text), WordCount(last.summary))

C10_Witness ==
  /\ ppc = "ended"
  /\ WordCount(text) = 11 /\ Len(text) > 21
  /\ last.status = 200 /\ WordCount(last.summary) = 10
  /\ HasLine("CorrectExactly10")
====
